---- MODULE Spec2Model ----
(***************************************************************************)
(* RealTimeLocation screen (app/(tabs)/index.tsx): the foreground refresh  *)
(* fetchLocationData, the background location task, and the mount/unmount  *)
(* effects that start and stop background location updates.                *)
(*                                                                         *)
(* Every await of the source is a step boundary: an async function is a    *)
(* chain of continuations, one action per continuation, and the value an   *)
(* external call settles with is that action's input.                      *)
(***************************************************************************)
EXTENDS Integers, Sequences, FiniteSets, TLC

\* ------------------------------------------------------------------ bounds

\* Concurrent fetchLocationData invocations the model tracks.
MaxFg == 2

\* Concurrent executions of the background task callback the model tracks.
MaxBg == 1

\* The same two bounds where the specification ranges over every kind of
\* sample and lookup outcome.
MaxFgData == 1

MaxBgData == 1

\* -------------------------------------------------------- JavaScript values

\* A JavaScript value of the kinds the screen handles: t is its typeof-like
\* kind, v the number (0 for the other kinds).
Num(n) == [t |-> "number", v |-> n]

Null == [t |-> "null", v |-> 0]

Undefined == [t |-> "undefined", v |-> 0]

\* A string where a number is expected, such as "n/a".
NonNumeric == [t |-> "string", v |-> 0]

IsNumber(x) == x.t = "number"

\* x is null or undefined: what ?? and ?. test.
Nullish(x) == x.t \in {"null", "undefined"}

\* A faulty variant of Coalesce: a || b, which also replaces 0.
CoalesceOr(a, b) == IF Nullish(a) \/ a = Num(0) THEN b ELSE a

\* a ?? b
Coalesce(a, b) == IF Nullish(a) THEN b ELSE a

\* A string, or null, as the address field holds it.
Text(s) == [t |-> "string", s |-> s]

NoText == [t |-> "null", s |-> ""]

AbsentText == [t |-> "undefined", s |-> ""]

\* `${x}` in a template literal.
TemplateString(x) ==
    CASE x.t = "string" -> x.s
      [] x.t = "null" -> "null"
      [] OTHER -> "undefined"

\* The result of evaluating a block: it completed with value v, or threw.
Normal(v) == [threw |-> FALSE, v |-> v]

Thrown(v) == [threw |-> TRUE, v |-> v]

\* ------------------------------------------------------------- the records

\* location.coords as the position source delivers it.
Coords(lat, lon, alt, acc) ==
    [latitude |-> lat, longitude |-> lon, altitude |-> alt, accuracy |-> acc]

NoCoords == Coords(Undefined, Undefined, Undefined, Undefined)

LocationData(lat, lon, alt, acc, addr) ==
    [latitude |-> lat, longitude |-> lon, altitude |-> alt, accuracy |-> acc,
     address |-> addr]

\* useState<LocationData>({...}) at construction.
InitialLocationData == LocationData(Num(0), Num(0), Null, Null, NoText)

\* useState<LocationData | null>(null): the slot holds no record.
NoLocationData ==
    LocationData(Undefined, Undefined, Undefined, Undefined, AbsentText)

AddressNotFound == "Address not found"

BackgroundAddress == "Address in background not fetched"

\* ------------------------------------------------------ the elevation lookup

\* What axios.get settles with: a rejection, or a response whose data is
\* missing ("nodata"), is an object without results ("noresults"), or
\* holds a results array. An element of results is an object with an
\* elevation field (Undefined when the field is absent).
Rejected == [status |-> "reject", data |-> "nodata", results |-> <<>>]

Response(data, results) == [status |-> "ok", data |-> data, results |-> results]

Result(elevation) == [elevation |-> elevation]

\* results[0]?.elevation
FirstElevation(results) ==
    IF Len(results) = 0 THEN Undefined ELSE results[1].elevation

\* A faulty variant of ElevationExpression: || in place of ??.
ElevationExpressionOr(response, altitude) ==
    IF response.data # "results" THEN Thrown(Undefined)
    ELSE Normal(CoalesceOr(FirstElevation(response.results), altitude))

\* elevationResponse.data.results[0]?.elevation ?? altitude: a TypeError
\* when data or data.results is missing.
ElevationExpression(response, altitude) ==
    IF response.data # "results" THEN Thrown(Undefined)
    ELSE Normal(Coalesce(FirstElevation(response.results), altitude))

\* A faulty variant of ResolveElevation: the catch clause is missing.
ResolveElevationNoCatch(response, altitude) ==
    IF response.status = "reject" THEN Thrown(altitude)
    ELSE ElevationExpression(response, altitude)

\* let elevation = altitude; try { elevation = <expression> } catch {}:
\* the completion of the whole block.
ResolveElevation(response, altitude) ==
    IF response.status = "reject" THEN Normal(altitude)
    ELSE LET e == ElevationExpression(response, altitude)
         IN  IF e.threw THEN Normal(altitude) ELSE e

\* --------------------------------------------------------- reverse geocoding

\* What reverseGeocodeAsync settles with: a rejection, or a list of
\* candidates, each with name, city, region and country (a string or null).
GeocodeRejected == [status |-> "reject", list |-> <<>>]

Geocoded(list) == [status |-> "ok", list |-> list]

Candidate(name, city, region, country) ==
    [name |-> name, city |-> city, region |-> region, country |-> country]

\* `${name}, ${city}, ${region}, ${country}`
ComposeAddress(c) ==
    TemplateString(c.name) \o ", " \o TemplateString(c.city) \o ", "
        \o TemplateString(c.region) \o ", " \o TemplateString(c.country)

\* A faulty variant of ResolveAddress: a failed call yields the placeholder.
ResolveAddressPlaceholder(geocode) ==
    IF geocode.status = "reject" \/ Len(geocode.list) = 0
    THEN Normal(Text(AddressNotFound))
    ELSE Normal(Text(ComposeAddress(geocode.list[1])))

\* let address = null; try { address = addressData ? `...` : 'Address not
\* found' } catch {}: the completion of the whole block.
ResolveAddress(geocode) ==
    IF geocode.status = "reject" THEN Normal(NoText)
    ELSE IF Len(geocode.list) = 0 THEN Normal(Text(AddressNotFound))
    ELSE Normal(Text(ComposeAddress(geocode.list[1])))

\* ------------------------------------------------------------------- state

VARIABLES
    locationData,        \* the foreground slot: what setLocationData was last given
    isLoading,           \* what setIsLoading was last given
    backgroundLocation,  \* the background slot: what setBackgroundLocation was last given
    fg,                  \* the fetchLocationData invocations, each at its await
    bg,                  \* the executions of the background task, each at its await
    mounted,             \* the component is mounted
    initPc,              \* initializeLocationUpdates: "permission" or "done"
    startPc,             \* startBackgroundLocationUpdates: "idle", "permission" or "done"
    updatesActive,       \* location updates for LOCATION_TASK_NAME are running
    fgLast,              \* history: the inputs behind the last foreground write
    bgLast,              \* history: the inputs behind the last background write
    geocodeCalls         \* history: the paths that called reverseGeocodeAsync

vars ==
    <<locationData, isLoading, backgroundLocation, fg, bg, mounted, initPc,
      startPc, updatesActive, fgLast, bgLast, geocodeCalls>>

FgSlots == DOMAIN fg

BgSlots == DOMAIN bg

\* An invocation of fetchLocationData: pc is the await it is suspended at
\* ("idle" when it is not running), coords and elevation its locals,
\* response the elevation response it received (history), result how its
\* last run ended (history).
FgIdle(result) ==
    [pc |-> "idle", coords |-> NoCoords, elevation |-> Undefined,
     response |-> Rejected, result |-> result]

\* An execution of the task callback, likewise.
BgIdle(result) == [pc |-> "idle", coords |-> NoCoords, result |-> result]

NoWrite ==
    [written |-> FALSE, coords |-> NoCoords, response |-> Rejected,
     geocode |-> GeocodeRejected]

Written(coords, response, geocode) ==
    [written |-> TRUE, coords |-> coords, response |-> response,
     geocode |-> geocode]

\* The state after construction and the mount effects: the foreground
\* permission request is pending, the task is defined, and on Android the
\* background permission request is pending.
InitWith(nFg, nBg) ==
    /\ locationData = InitialLocationData
    /\ isLoading = FALSE
    /\ backgroundLocation = NoLocationData
    /\ fg = [i \in 1..nFg |-> FgIdle("none")]
    /\ bg = [j \in 1..nBg |-> BgIdle("none")]
    /\ mounted = TRUE
    /\ initPc = "permission"
    /\ startPc \in {"permission", "idle"}
    /\ updatesActive = FALSE
    /\ fgLast = NoWrite
    /\ bgLast = NoWrite
    /\ geocodeCalls = {}

Init == InitWith(MaxFg, MaxBg)

\* One path at a time: the foreground path where the platform is not
\* Android (background updates are never started), or the background
\* path on Android with no refresh tracked.
InitData ==
    \/ InitWith(MaxFgData, 0) /\ startPc = "idle"
    \/ InitWith(0, MaxBgData) /\ startPc = "permission"

InitBoth == InitWith(MaxFgData, MaxBgData)

\* ---------------------------------------------------- the foreground refresh

\* A faulty variant of WriteForeground: the record goes to the other slot.
WriteForegroundOtherSlot(record) ==
    /\ backgroundLocation' = record
    /\ UNCHANGED locationData

\* setLocationData({...}), the only write of the foreground path.
WriteForeground(record) ==
    /\ locationData' = record
    /\ UNCHANGED backgroundLocation

\* catch (error) { console.error(...) } finally { setIsLoading(false) }
FgCaught(i, at) ==
    /\ fg' = [fg EXCEPT ![i] = FgIdle(at)]
    /\ isLoading' = FALSE
    /\ UNCHANGED <<locationData, backgroundLocation, fgLast>>

\* fetchLocationData is called: setIsLoading(true), then the position read
\* is awaited. i is the invocation.
FetchLocationData(i) ==
    /\ fg[i].pc = "idle"
    /\ fg' = [fg EXCEPT ![i] = [FgIdle("none") EXCEPT !.pc = "position"]]
    /\ isLoading' = TRUE
    /\ UNCHANGED <<locationData, backgroundLocation, fgLast>>

\* getCurrentPositionAsync rejects.
FgPositionRejected(i) ==
    /\ fg[i].pc = "position"
    /\ FgCaught(i, "caught:position")
    /\ UNCHANGED <<bg, mounted, initPc, startPc, updatesActive, bgLast, geocodeCalls>>

\* getCurrentPositionAsync resolves: the coords are destructured and the
\* elevation request is awaited.
FgPositionResolved(i, coords) ==
    /\ fg[i].pc = "position"
    /\ fg' = [fg EXCEPT ![i].pc = "elevation", ![i].coords = coords]
    /\ UNCHANGED <<locationData, isLoading, backgroundLocation, bg, mounted,
                   initPc, startPc, updatesActive, fgLast, bgLast, geocodeCalls>>

\* axios.get settles: the elevation is resolved and reverseGeocodeAsync is
\* awaited.
FgElevationSettled(i, response) ==
    /\ fg[i].pc = "elevation"
    /\ LET e == ResolveElevation(response, fg[i].coords.altitude)
       IN  IF e.threw
           THEN FgCaught(i, "caught:elevation") /\ UNCHANGED geocodeCalls
           ELSE /\ fg' = [fg EXCEPT ![i].pc = "geocode", ![i].elevation = e.v,
                                    ![i].response = response]
                /\ geocodeCalls' = geocodeCalls \cup {"foreground"}
                /\ UNCHANGED <<locationData, isLoading, backgroundLocation,
                               fgLast>>
    /\ UNCHANGED <<bg, mounted, initPc, startPc, updatesActive, bgLast>>

\* reverseGeocodeAsync settles: the address is resolved, the record is
\* written and the loading flag is cleared.
FgGeocodeSettled(i, geocode) ==
    /\ fg[i].pc = "geocode"
    /\ LET a == ResolveAddress(geocode)
           c == fg[i].coords
       IN  IF a.threw
           THEN FgCaught(i, "caught:geocode")
           ELSE /\ WriteForeground(LocationData(c.latitude, c.longitude,
                                       fg[i].elevation, c.accuracy, a.v))
                /\ fgLast' = Written(c, fg[i].response, geocode)
                /\ fg' = [fg EXCEPT ![i] = FgIdle("written")]
                /\ isLoading' = FALSE
    /\ UNCHANGED <<bg, mounted, initPc, startPc, updatesActive, bgLast, geocodeCalls>>

\* The lowest invocation that is not running.
FreeFg == CHOOSE i \in FgSlots : fg[i].pc = "idle" /\ \A k \in 1..(i - 1) : fg[k].pc # "idle"

HasFreeFg == \E i \in FgSlots : fg[i].pc = "idle"

\* <Button title="Refresh Now" onPress={fetchLocationData} />
RefreshNow ==
    /\ mounted
    /\ HasFreeFg
    /\ FetchLocationData(FreeFg)
    /\ UNCHANGED <<bg, mounted, initPc, startPc, updatesActive, bgLast, geocodeCalls>>

\* initializeLocationUpdates after requestForegroundPermissionsAsync
\* settles: fetchLocationData is called when the status is 'granted'.
InitializeLocationUpdates(status) ==
    /\ initPc = "permission"
    /\ initPc' = "done"
    /\ IF status = "granted"
       THEN HasFreeFg /\ FetchLocationData(FreeFg)
       ELSE UNCHANGED <<locationData, isLoading, backgroundLocation, fg, fgLast>>
    /\ UNCHANGED <<bg, mounted, startPc, updatesActive, bgLast, geocodeCalls>>

\* -------------------------------------------------------- the background task

\* What the task manager hands the callback: { data, error }, data holding
\* the list of location objects.
Delivery(error, hasData, locations) ==
    [error |-> error, hasData |-> hasData, locations |-> locations]

\* The geocode entry of a write that made no reverse-geocoding call.
NotGeocoded == [status |-> "none", list |-> <<>>]

\* setBackgroundLocation({...}), the only write of the background path.
WriteBackground(record) ==
    /\ backgroundLocation' = record
    /\ UNCHANGED locationData

\* A faulty variant of BackgroundRecord: the address is left null.
BackgroundRecordNoAddress(coords, elevation) ==
    LocationData(coords.latitude, coords.longitude, elevation, coords.accuracy,
                 NoText)

\* The record the task callback builds.
BackgroundRecord(coords, elevation) ==
    LocationData(coords.latitude, coords.longitude, elevation, coords.accuracy,
                 Text(BackgroundAddress))

FreeBg == CHOOSE j \in BgSlots : bg[j].pc = "idle" /\ \A k \in 1..(j - 1) : bg[k].pc # "idle"

HasFreeBg == \E j \in BgSlots : bg[j].pc = "idle"

\* The task callback is invoked while location updates run: it returns on
\* an error, does nothing without data, and otherwise destructures
\* locations[0].coords (a TypeError when there is no first location, which
\* rejects the callback's promise) and awaits the elevation request.
TaskDelivered(delivery) ==
    /\ updatesActive
    /\ HasFreeBg
    /\ bg' = [bg EXCEPT ![FreeBg] =
                IF delivery.error THEN BgIdle("error")
                ELSE IF ~delivery.hasData THEN BgIdle("nodata")
                ELSE IF Len(delivery.locations) = 0 THEN BgIdle("thrown:locations")
                ELSE [pc |-> "elevation", coords |-> delivery.locations[1],
                      result |-> "none"]]
    /\ UNCHANGED <<locationData, isLoading, backgroundLocation, fg, mounted,
                   initPc, startPc, updatesActive, fgLast, bgLast, geocodeCalls>>

\* axios.get settles in the task callback: the record is written.
BgElevationSettled(j, response) ==
    /\ bg[j].pc = "elevation"
    /\ LET e == ResolveElevation(response, bg[j].coords.altitude)
       IN  IF e.threw
           THEN /\ bg' = [bg EXCEPT ![j] = BgIdle("thrown:elevation")]
                /\ UNCHANGED <<locationData, backgroundLocation, bgLast>>
           ELSE /\ WriteBackground(BackgroundRecord(bg[j].coords, e.v))
                /\ bgLast' = Written(bg[j].coords, response, NotGeocoded)
                /\ bg' = [bg EXCEPT ![j] = BgIdle("written")]
    /\ UNCHANGED <<isLoading, fg, mounted, initPc, startPc, updatesActive,
                   fgLast, geocodeCalls>>

\* ------------------------------------------------------------ the lifecycle

\* startBackgroundLocationUpdates after requestBackgroundPermissionsAsync
\* settles: the updates are started when the status is 'granted'.
StartBackgroundLocationUpdates(status) ==
    /\ startPc = "permission"
    /\ startPc' = "done"
    /\ updatesActive' = IF status = "granted" THEN TRUE ELSE updatesActive
    /\ UNCHANGED <<locationData, isLoading, backgroundLocation, fg, bg, mounted,
                   initPc, fgLast, bgLast, geocodeCalls>>

\* The component unmounts: both effect cleanups call
\* stopLocationUpdatesAsync(LOCATION_TASK_NAME).
Unmount ==
    /\ mounted
    /\ mounted' = FALSE
    /\ updatesActive' = FALSE
    /\ UNCHANGED <<locationData, isLoading, backgroundLocation, fg, bg, initPc,
                   startPc, fgLast, bgLast, geocodeCalls>>

\* ------------------------------------------------------------------ inputs

PermissionStatuses == {"granted", "denied"}

Valid1 == Coords(Num(37), Num(-122), Num(10), Num(5))

Valid2 == Coords(Num(48), Num(2), Null, Null)

\* A structurally invalid sample: the latitude is absent and the longitude
\* is not a number.
Invalid1 == Coords(Undefined, NonNumeric, Num(10), Num(5))

AllCoords == {Valid1, Valid2, Invalid1}

FewCoords == {Valid1, Valid2}

AllResponses ==
    {Rejected,
     Response("nodata", <<>>),
     Response("noresults", <<>>),
     Response("results", <<>>),
     Response("results", <<Result(Undefined)>>),
     Response("results", <<Result(Null), Result(Num(12))>>),
     Response("results", <<Result(Num(0))>>),
     Response("results", <<Result(Num(12)), Result(Num(0))>>),
     Response("results", <<Result(NonNumeric)>>)}

FewResponses == {Rejected, Response("results", <<Result(Num(12))>>)}

Googleplex ==
    Candidate(Text("Googleplex"), Text("Mountain View"), Text("CA"), Text("USA"))

Unnamed == Candidate(NoText, Text("Paris"), NoText, Text("France"))

AllGeocodes ==
    {GeocodeRejected, Geocoded(<<>>), Geocoded(<<Googleplex>>),
     Geocoded(<<Unnamed, Googleplex>>)}

FewGeocodes == {GeocodeRejected, Geocoded(<<Googleplex>>)}

AllDeliveries ==
    {Delivery(TRUE, FALSE, <<>>), Delivery(FALSE, FALSE, <<>>),
     Delivery(FALSE, TRUE, <<>>)}
        \cup {Delivery(FALSE, TRUE, <<c>>) : c \in AllCoords}
        \cup {Delivery(FALSE, TRUE, <<Valid2, Valid1>>)}

FewDeliveries ==
    {Delivery(TRUE, FALSE, <<>>), Delivery(FALSE, FALSE, <<>>),
     Delivery(FALSE, TRUE, <<>>)}
        \cup {Delivery(FALSE, TRUE, <<c>>) : c \in FewCoords}

\* ----------------------------------------------------------- specifications

\* The whole screen: both paths and the lifecycle, interleaved.
Next ==
    \/ RefreshNow
    \/ \E s \in PermissionStatuses : InitializeLocationUpdates(s)
    \/ \E i \in FgSlots : FgPositionRejected(i)
    \/ \E i \in FgSlots, c \in FewCoords : FgPositionResolved(i, c)
    \/ \E i \in FgSlots, r \in FewResponses : FgElevationSettled(i, r)
    \/ \E i \in FgSlots, g \in FewGeocodes : FgGeocodeSettled(i, g)
    \/ \E d \in FewDeliveries : TaskDelivered(d)
    \/ \E j \in BgSlots, r \in FewResponses : BgElevationSettled(j, r)
    \/ \E s \in PermissionStatuses : StartBackgroundLocationUpdates(s)
    \/ Unmount

Spec == Init /\ [][Next]_vars

SpecBoth == InitBoth /\ [][Next]_vars

\* Each path over every kind of sample and lookup outcome.
NextData ==
    \/ RefreshNow
    \/ \E s \in PermissionStatuses : InitializeLocationUpdates(s)
    \/ \E i \in FgSlots : FgPositionRejected(i)
    \/ \E i \in FgSlots, c \in AllCoords : FgPositionResolved(i, c)
    \/ \E i \in FgSlots, r \in AllResponses : FgElevationSettled(i, r)
    \/ \E i \in FgSlots, g \in AllGeocodes : FgGeocodeSettled(i, g)
    \/ \E d \in AllDeliveries : TaskDelivered(d)
    \/ \E j \in BgSlots, r \in AllResponses : BgElevationSettled(j, r)
    \/ \E s \in PermissionStatuses : StartBackgroundLocationUpdates(s)
    \/ Unmount

SpecData == InitData /\ [][NextData]_vars

\* ------------------------------------------------------------------ claims

\* The elevation service gave no usable value: the call failed, data or
\* its results array is missing, the array is empty, or its first element
\* has an absent, null or non-numeric elevation.
NoUsableElevation(response) ==
    \/ response.status = "reject"
    \/ response.data # "results"
    \/ Len(response.results) = 0
    \/ ~IsNumber(response.results[1].elevation)

\* The elevation service answered with a number in its first result.
NumericElevation(response) == ~NoUsableElevation(response)

\* The same, leaving out the non-numeric elevation field.
NoElevationValue(response) ==
    \/ response.status = "reject"
    \/ response.data # "results"
    \/ Len(response.results) = 0
    \/ Nullish(response.results[1].elevation)

ValidSample(coords) == IsNumber(coords.latitude) /\ IsNumber(coords.longitude)

InFlight == {i \in DOMAIN fg : fg[i].pc # "idle"}

\* C1: enrichment never fails outright. A foreground refresh whose
\* position read succeeded ends with a record written, whatever the
\* elevation lookup and the reverse geocoding settled with, and the outer
\* error handler is reached by a failed position read only; an execution
\* of the background task that reached the elevation lookup ends with a
\* record written.
C1_NeverFailsOutright ==
    /\ \A i \in DOMAIN fg :
          /\ fg[i].result \in {"none", "written", "caught:position"}
          /\ fg[i].result = "written" => fgLast.written
    /\ \A j \in DOMAIN bg :
          /\ bg[j].result # "thrown:elevation"
          /\ bg[j].result = "written" => bgLast.written

\* C1 happens: a refresh wrote its record after both lookups failed.
C1_Witness ==
    /\ \E i \in DOMAIN fg : fg[i].result = "written"
    /\ fgLast.written
    /\ fgLast.response.status = "reject"
    /\ fgLast.geocode.status = "reject"

\* C2, as claimed: when the elevation service gave no usable value (a
\* non-numeric elevation field included), the elevation of the written
\* record is the sample's altitude, on both paths.
C2_FallbackToAltitude ==
    /\ fgLast.written /\ NoUsableElevation(fgLast.response)
          => locationData.altitude = fgLast.coords.altitude
    /\ bgLast.written /\ NoUsableElevation(bgLast.response)
          => backgroundLocation.altitude = bgLast.coords.altitude

\* C2 without the non-numeric elevation field: when the call failed or the
\* first result has no elevation value, the elevation of the written
\* record is the sample's altitude, on both paths.
C2_FallbackWithoutValue ==
    /\ fgLast.written /\ NoElevationValue(fgLast.response)
          => locationData.altitude = fgLast.coords.altitude
    /\ bgLast.written /\ NoElevationValue(bgLast.response)
          => backgroundLocation.altitude = bgLast.coords.altitude

\* C3: when the elevation service answered with a number in its first
\* result, the elevation of the written record is that number, whatever
\* the sample's altitude and the reverse geocoding outcome, on both paths.
C3_ServiceValueWins ==
    /\ fgLast.written /\ NumericElevation(fgLast.response)
          => locationData.altitude = fgLast.response.results[1].elevation
    /\ bgLast.written /\ NumericElevation(bgLast.response)
          => backgroundLocation.altitude = bgLast.response.results[1].elevation

\* C3 happens: the service answered 0 for a sample whose altitude is 10,
\* and the reverse geocoding failed.
C3_Witness ==
    /\ fgLast.written
    /\ fgLast.response.status = "ok"
    /\ fgLast.response.data = "results"
    /\ Len(fgLast.response.results) > 0
    /\ fgLast.response.results[1].elevation = Num(0)
    /\ fgLast.coords.altitude = Num(10)
    /\ fgLast.geocode.status = "reject"
    /\ locationData.altitude = Num(0)

\* The display string of a candidate, field by field.
ExpectedAddress(c) ==
    IF c = Googleplex THEN "Googleplex, Mountain View, CA, USA"
    ELSE IF c = Unnamed THEN "null, Paris, null, France"
    ELSE "?"

\* C4: the address a foreground refresh writes is 'Address not found'
\* exactly when the geocoder answered with no candidate, null exactly when
\* the call failed, and the string composed from the first candidate
\* otherwise, whatever the elevation lookup settled with.
C4_AddressByGeocodeOutcome ==
    fgLast.written =>
        /\ locationData.address = Text("Address not found")
              <=> (fgLast.geocode.status = "ok" /\ Len(fgLast.geocode.list) = 0)
        /\ locationData.address = NoText <=> fgLast.geocode.status = "reject"
        /\ fgLast.geocode.status = "ok" /\ Len(fgLast.geocode.list) > 0
              => locationData.address
                    = Text(ExpectedAddress(fgLast.geocode.list[1]))

\* C4 happens: the geocoding call failed after the elevation service
\* answered with a number, and the address written is null.
C4_Witness ==
    /\ fgLast.written
    /\ fgLast.geocode.status = "reject"
    /\ NumericElevation(fgLast.response)
    /\ locationData.address = NoText

\* C5: every record the background task writes has the address 'Address
\* in background not fetched', whatever the elevation lookup settled with,
\* and the background task never calls the reverse geocoder.
C5_BackgroundAddress ==
    /\ bgLast.written
          => backgroundLocation.address = Text("Address in background not fetched")
    /\ "background" \notin geocodeCalls

\* C5 happens: the task wrote its record after the elevation lookup failed.
C5_Witness ==
    /\ bgLast.written
    /\ bgLast.response.status = "reject"
    /\ \E j \in DOMAIN bg : bg[j].result = "written"

\* C6, as claimed: at most one foreground refresh is in flight.
C6_SingleInFlight == Cardinality(InFlight) <= 1

\* C7: the two slots are independent. A step of a foreground refresh
\* leaves the background slot unchanged, a step of the background task
\* leaves the foreground slot unchanged, and each slot holds its initial
\* value or a record whose fields come from the sample of its own path's
\* last write.
C7_SlotsIndependent ==
    /\ [](IF fgLast.written
          THEN /\ locationData.latitude = fgLast.coords.latitude
               /\ locationData.longitude = fgLast.coords.longitude
               /\ locationData.accuracy = fgLast.coords.accuracy
               /\ locationData.address # Text("Address in background not fetched")
          ELSE locationData = InitialLocationData)
    /\ [](IF bgLast.written
          THEN /\ backgroundLocation.latitude = bgLast.coords.latitude
               /\ backgroundLocation.longitude = bgLast.coords.longitude
               /\ backgroundLocation.accuracy = bgLast.coords.accuracy
               /\ backgroundLocation.address = Text("Address in background not fetched")
          ELSE backgroundLocation = NoLocationData)
    /\ [][/\ fg' # fg => backgroundLocation' = backgroundLocation
          /\ bg' # bg => locationData' = locationData]_vars

\* C7 happens: both slots hold a written record, of different samples.
C7_Witness ==
    /\ fgLast.written
    /\ bgLast.written
    /\ fgLast.coords # bgLast.coords
    /\ locationData.latitude # backgroundLocation.latitude

\* C8, as claimed: a structurally invalid sample writes no record.
C8_InvalidSampleWritesNothing ==
    /\ fgLast.written => ValidSample(fgLast.coords)
    /\ bgLast.written => ValidSample(bgLast.coords)

\* C9, as claimed: isLoading is true exactly while some fetchLocationData
\* invocation has started and not finished.
C9_LoadingTracksInFlight == isLoading <=> InFlight # {}

\* C10, as claimed: once the component has unmounted, and with it the
\* last stopLocationUpdatesAsync call is made, no start takes effect:
\* location updates are not running.
C10_StoppedAfterUnmount == ~mounted => ~updatesActive

====
